---- MODULE Spec2Model ----
(***************************************************************************)
(* Model of backend/main.py (AI EDA API): the in-memory result store with  *)
(* its time-to-live, the analyze pipeline, target selection, the scatter   *)
(* pair of chart_data, the forecasting engine and the insight synthesizer. *)
(*                                                                         *)
(* Each part of the program has its own specification over the same        *)
(* variables; the variables of the other parts stay at their idle values.  *)
(***************************************************************************)
EXTENDS Integers, Sequences, FiniteSets, TLC

VARIABLES
    ANALYSES,   \* the store: insertion-ordered sequence of [id, created_at]
    now,        \* time.time(), in seconds
    ticks,      \* number of clock advances so far (bounded)
    hpc,        \* position of the health request: idle / iter / pop / raised
    hNow,       \* health's local `now`
    hPos,       \* entries the dict iterator of health has yielded so far
    hUsed,      \* dict size the iterator saw when it was created
    stale,      \* health's local list `stale`
    lookup,     \* answer of the last get_analysis / download_report
    fpc,        \* position inside simple_forecast: idle / start / loop / fit / done
    fargs,      \* arguments of simple_forecast: [s, agg, freq, horizon]
    fIdx,       \* index of the loop `for f in freqs` (1-based)
    last_reason,\* simple_forecast's local `last_reason`
    y,          \* the resampled series of the frequency being fitted
    attempts,   \* history: the frequencies the loop has tried, with their counts
    fres,       \* analyze's locals forecast, forecast_reason: what simple_forecast returned
    tpc,        \* position of the pick_target call: idle / call / done
    tdf,        \* pick_target's table: [rows, num], num the numeric columns in order
    tres,       \* what pick_target returned: [target, agg]
    cpc,        \* position inside chart_data: idle / hist / bars / pie / heat / ts / ret / done / raised
    cdf,        \* chart_data's table: [num, corr, finite, pairs, cat, dt]
    charts,     \* chart_data's dict `charts` and its locals
    ipc,        \* position of the insights call: idle / call / done
    iin,        \* arguments of insights: [rows, missing, heat, bars, skews, fc]
    iout,       \* the list insights returned
    apc,        \* position inside analyze: idle / read / coerce / charts / detect / forecast / insights / store / done / failed
    adf,        \* the upload of the analyze request: [kind, dates, overlap, skew]
    detected,   \* analyze's locals date_col, target, agg
    record,     \* the payload analyze built, None before
    astatus     \* the HTTP status of the answer, 0 while the request runs

storeVars == <<ANALYSES, now, ticks, hpc, hNow, hPos, hUsed, stale, lookup>>
fcVars == <<fpc, fargs, fIdx, last_reason, y, attempts, fres>>

tgVars == <<tpc, tdf, tres>>

chVars == <<cpc, cdf, charts>>
inVars == <<ipc, iin, iout>>
anVars == <<apc, adf, detected, record, astatus>>

\* What the store's actions leave alone.
notStore == <<fcVars, tgVars, chVars, inVars, anVars>>
\* What simple_forecast's steps leave alone.
notFc == <<storeVars, tgVars, chVars, inVars, anVars>>
\* What pick_target leaves alone.
notTg == <<storeVars, fcVars, chVars, inVars, anVars>>
\* What chart_data's steps leave alone.
notCh == <<storeVars, fcVars, tgVars, inVars, anVars>>
\* What insights leaves alone.
notIn == <<storeVars, fcVars, tgVars, chVars, anVars>>

vars == <<ANALYSES, now, ticks, hpc, hNow, hPos, hUsed, stale, lookup,
          fpc, fargs, fIdx, last_reason, y, attempts, fres,
          tpc, tdf, tres, cpc, cdf, charts, ipc, iin, iout,
          apc, adf, detected, record, astatus>>

----------------------------------------------------------------------------
(* Bounds                                                                  *)

MaxIds == 3         \* analysis ids that can be drawn (uuid4 values)
MaxTicks == 3       \* clock advances per behaviour

Ids == 1..MaxIds

----------------------------------------------------------------------------
(* The result store (main.py lines 23-40, 645, 649-661)                    *)

TTL_SECONDS == 24 * 3600

\* The clock advances by a second or by a whole time-to-live.
ClockSteps == {1, TTL_SECONDS}

StoreKeys == {ANALYSES[i].id : i \in 1..Len(ANALYSES)}

\* ANALYSES.get(analysis_id): the record stored under the id, or None.
NoRecord == [id |-> 0, created_at |-> 0]
StoreGet(id) ==
    IF id \in StoreKeys
    THEN ANALYSES[CHOOSE i \in 1..Len(ANALYSES) : ANALYSES[i].id = id]
    ELSE NoRecord

\* ANALYSES.pop(k, None)
StorePop(s, k) == SelectSeq(s, LAMBDA r : r.id # k)

\* ANALYSES[analysis_id] = {"created_at": time.time(), **payload}
StorePut(id) == ANALYSES' = Append(ANALYSES, [id |-> id, created_at |-> now])

NoLookup == [status |-> "none", id |-> 0, age |-> 0]

StoreInit ==
    /\ ANALYSES = <<>>
    /\ now = 0
    /\ ticks = 0
    /\ hpc = "idle"
    /\ hNow = 0
    /\ hPos = 0
    /\ hUsed = 0
    /\ stale = <<>>
    /\ lookup = NoLookup

Tick ==
    /\ ticks < MaxTicks
    /\ \E d \in ClockSteps : now' = now + d
    /\ ticks' = ticks + 1
    /\ UNCHANGED <<ANALYSES, hpc, hNow, hPos, hUsed, stale, lookup>>
    /\ UNCHANGED notStore

\* analyze, line 645: the insertion that ends a successful request.  The id
\* is a fresh uuid4.
AnalyzeInsert ==
    /\ \E id \in Ids \ StoreKeys : StorePut(id)
    /\ UNCHANGED <<now, ticks, hpc, hNow, hPos, hUsed, stale, lookup>>
    /\ UNCHANGED notStore

\* health, lines 36-37: read the clock and create the iterator of
\* ANALYSES.items().
HealthStart ==
    /\ hpc = "idle"
    /\ hpc' = "iter"
    /\ hNow' = now
    /\ hPos' = 0
    /\ hUsed' = Len(ANALYSES)
    /\ stale' = <<>>
    /\ UNCHANGED <<ANALYSES, now, ticks, lookup>>
    /\ UNCHANGED notStore

\* health, line 37: one step of the list comprehension.  The dict iterator
\* raises RuntimeError when the dict changed size since it was created.
HealthIterNext ==
    /\ hpc = "iter"
    /\ IF Len(ANALYSES) # hUsed
       THEN /\ hpc' = "raised"
            /\ UNCHANGED <<hPos, stale>>
       ELSE IF hPos < Len(ANALYSES)
       THEN /\ hPos' = hPos + 1
            /\ stale' = IF hNow - ANALYSES[hPos + 1].created_at > TTL_SECONDS
                        THEN Append(stale, ANALYSES[hPos + 1].id)
                        ELSE stale
            /\ hpc' = "iter"
       ELSE /\ hpc' = "pop"
            /\ UNCHANGED <<hPos, stale>>
    /\ UNCHANGED <<ANALYSES, now, ticks, hNow, hUsed, lookup>>
    /\ UNCHANGED notStore

\* health, lines 38-40: pop the stale keys one by one, then return.
HealthPop ==
    /\ hpc = "pop"
    /\ IF stale # <<>>
       THEN /\ ANALYSES' = StorePop(ANALYSES, Head(stale))
            /\ stale' = Tail(stale)
            /\ hpc' = "pop"
       ELSE /\ hpc' = "idle"
            /\ UNCHANGED <<ANALYSES, stale>>
    /\ UNCHANGED <<now, ticks, hNow, hPos, hUsed, lookup>>
    /\ UNCHANGED notStore

\* health: the RuntimeError ends the request (a 500 answer).
HealthRaised ==
    /\ hpc = "raised"
    /\ hpc' = "idle"
    /\ stale' = <<>>
    /\ UNCHANGED <<ANALYSES, now, ticks, hNow, hPos, hUsed, lookup>>
    /\ UNCHANGED notStore

\* get_analysis / download_report, lines 651-654 and 659-662.
Lookup(id) ==
    LET rec == StoreGet(id) IN
    IF rec = NoRecord
    THEN [status |-> "404", id |-> id, age |-> 0]
    ELSE [status |-> "ok", id |-> id, age |-> now - rec.created_at]

get_analysis ==
    /\ \E id \in Ids : lookup' = Lookup(id)
    /\ UNCHANGED <<ANALYSES, now, ticks, hpc, hNow, hPos, hUsed, stale>>
    /\ UNCHANGED notStore

StoreNext ==
    \/ Tick
    \/ AnalyzeInsert
    \/ HealthStart
    \/ HealthIterNext
    \/ HealthPop
    \/ HealthRaised
    \/ get_analysis

----------------------------------------------------------------------------
(* The forecasting engine: simple_forecast (main.py lines 311-393)         *)
(*                                                                         *)
(* A timestamp is a day number counted from 2023-01-01 (a Sunday).  The    *)
(* argument s is the series after lines 316-322: the day numbers of the    *)
(* rows whose date and target are both valid, in ascending order.  The     *)
(* values themselves are not computed: Y(b) stands for the aggregated      *)
(* value of bucket b and Yhat(t) for the fitted value of row t.            *)

MaxRows == 10       \* rows of the (date, target) series
MaxGap == 31        \* largest distance in days between consecutive rows

Reason(code, f, n) == [code |-> code, freq |-> f, n |-> n]
NoReason == Reason("", "", 0)
None == [none |-> TRUE]
NoArgs == [s |-> <<>>, agg |-> "sum", freq |-> "auto", horizon |-> 0]
NoResult == [forecast |-> None, reason |-> Reason("not_called", "", 0)]

\* First day of each month of 2023 and 2024, as day numbers.
MonthStarts ==
    <<0, 31, 59, 90, 120, 151, 181, 212, 243, 273, 304, 334,
      365, 396, 425, 456, 486, 517, 547, 578, 609, 639, 670, 700>>

\* Months elapsed since January 2023 on day d.
MonthOf(d) == Cardinality({i \in 1..Len(MonthStarts) : MonthStarts[i] <= d}) - 1

\* The bucket of resample(f) a day falls into: "D" the day, "W" the week
\* ending on Sunday, "M" the calendar month, "Q" the calendar quarter.
Bucket(f, d) ==
    CASE f = "D" -> d
      [] f = "W" -> (d + 6) \div 7
      [] f = "M" -> MonthOf(d)
      [] OTHER   -> MonthOf(d) \div 3

\* The elements of a finite set of integers in ascending order.
SortedSeq(S) ==
    [i \in 1..Cardinality(S) |-> CHOOSE x \in S : Cardinality({z \in S : z < x}) = i - 1]

\* The buckets that hold at least one row.
NonEmptyBuckets(s, f) == {Bucket(f, s[i]) : i \in 1..Len(s)}

\* Every bucket from the first row's to the last row's, in ascending order.
SpannedBuckets(s, f) ==
    LET lo == Bucket(f, s[1])
        hi == Bucket(f, s[Len(s)])
    IN  [i \in 1..(hi - lo + 1) |-> lo + i - 1]

\* Line 329: s[target].resample(f).sum().dropna() or .mean().dropna().
\* The sum of an empty bucket is 0, which dropna keeps; the mean of an empty
\* bucket is NaN, which dropna drops.  The result is the index of y.
Resample(s, f, agg) ==
    IF agg = "sum" THEN SpannedBuckets(s, f)
                   ELSE SortedSeq(NonEmptyBuckets(s, f))

FreqsCoarseFirst(freq) == IF freq = "auto" THEN <<"M", "W", "D">> ELSE <<freq>>

\* Line 323
Freqs(freq) == IF freq = "auto" THEN <<"D", "W", "M">> ELSE <<freq>>

minsDayEight == [D |-> 8, W |-> 6, M |-> 4]

\* Line 324
mins == [D |-> 10, W |-> 6, M |-> 4]

\* Line 325
default_h == [D |-> 14, W |-> 8, M |-> 6]

\* f.lower()
Lower(f) == CASE f = "D" -> "d" [] f = "W" -> "w" [] f = "M" -> "m" [] OTHER -> "q"

Max(a, b) == IF a >= b THEN a ELSE b

\* Line 348: split = max(5, int(len(dfm) * 0.8))
Split(n) == Max(5, (n * 8) \div 10)

\* A Python slice seq[k:] of a sequence.
SliceFrom(seq, k) == SubSeq(seq, k + 1, Len(seq))

Y(b) == <<"y", b>>
Yhat(t) == <<"y_hat", t>>

\* np.mean over the held-out pairs: NaN over an empty segment.
MeanOver(kind, yt, yh) ==
    IF yt = <<>> THEN [nan |-> TRUE, kind |-> kind, y_true |-> yt, y_hat |-> yh]
                 ELSE [nan |-> FALSE, kind |-> kind, y_true |-> yt, y_hat |-> yh]

\* Lines 334-388: the forecast built from the resampled series yy.
BuildForecast(yy, f, agg, horizon) ==
    LET n == Len(yy)
        split == Split(n)
        y_true == [t \in 1..n |-> Y(yy[t])]
        y_hat == [t \in 1..n |-> Yhat(t - 1)]
        y_true_bt == SliceFrom(y_true, split)
        y_hat_bt == SliceFrom(y_hat, split)
        H == IF horizon # 0 THEN horizon ELSE default_h[f]
    IN  [freq |-> f,
         agg |-> agg,
         horizon |-> H,
         metrics |-> [mae |-> MeanOver("abs", y_true_bt, y_hat_bt),
                      rmse |-> MeanOver("sq", y_true_bt, y_hat_bt),
                      mape |-> MeanOver("pct", y_true_bt, y_hat_bt)],
         backtest |-> [x |-> SliceFrom(yy, split),
                       y_true |-> y_true_bt,
                       y_hat |-> y_hat_bt],
         forecast |-> [x |-> [h \in 1..H |-> yy[n] + h],
                       y_hat |-> [h \in 1..H |-> Yhat(n - 1 + h)]]]

\* Lines 316-327: drop the invalid rows, return when none is left, else
\* enter the loop over the candidate frequencies.
FcStart ==
    /\ fpc = "start"
    /\ IF fargs.s = <<>>
       THEN /\ fres' = [forecast |-> None, reason |-> Reason("no_valid_rows_after_parsing", "", 0)]
            /\ fpc' = "done"
            /\ UNCHANGED <<fIdx, last_reason>>
       ELSE /\ fpc' = "loop"
            /\ fIdx' = 1
            /\ last_reason' = Reason("unknown", "", 0)
            /\ UNCHANGED fres
    /\ UNCHANGED <<fargs, y, attempts>>
    /\ UNCHANGED notFc

\* Lines 328-332: resample at the next candidate frequency and apply the
\* minimum-points gate.  A frequency without an entry in mins raises KeyError,
\* which line 392 turns into a forecast_error.
FcTry ==
    /\ fpc = "loop"
    /\ fIdx <= Len(Freqs(fargs.freq))
    /\ LET f == Freqs(fargs.freq)[fIdx]
           yy == Resample(fargs.s, f, fargs.agg)
       IN  /\ attempts' = Append(attempts, [f |-> f, n |-> Len(yy)])
           /\ IF f \notin DOMAIN mins
              THEN /\ fres' = [forecast |-> None, reason |-> Reason("forecast_error", "", 0)]
                   /\ fpc' = "done"
                   /\ UNCHANGED <<fIdx, last_reason, y>>
              ELSE IF Len(yy) < mins[f]
              THEN /\ last_reason' = Reason("insufficient_points", Lower(f), Len(yy))
                   /\ fIdx' = fIdx + 1
                   /\ UNCHANGED <<fpc, y, fres>>
              ELSE /\ y' = yy
                   /\ fpc' = "fit"
                   /\ UNCHANGED <<fIdx, last_reason, fres>>
    /\ UNCHANGED fargs
    /\ UNCHANGED notFc

\* Lines 334-389: fit, backtest and project; the forecast is returned with an
\* empty reason.  An exception raised on the way (numpy.linalg.LinAlgError
\* when the least-squares fit does not converge) is caught at line 392.
FcFit ==
    /\ fpc = "fit"
    /\ \E raised \in BOOLEAN :
          fres' = IF raised
                  THEN [forecast |-> None, reason |-> Reason("forecast_error", "", 0)]
                  ELSE [forecast |-> BuildForecast(y, Freqs(fargs.freq)[fIdx], fargs.agg, fargs.horizon),
                        reason |-> NoReason]
    /\ fpc' = "done"
    /\ UNCHANGED <<fargs, fIdx, last_reason, y, attempts>>
    /\ UNCHANGED notFc

\* Line 391: the loop ran out of frequencies.
FcExhausted ==
    /\ fpc = "loop"
    /\ fIdx > Len(Freqs(fargs.freq))
    /\ fres' = [forecast |-> None, reason |-> last_reason]
    /\ fpc' = "done"
    /\ UNCHANGED <<fargs, fIdx, last_reason, y, attempts>>
    /\ UNCHANGED notFc

\* The series of k1 rows g1 days apart followed by k2 rows g2 days apart.
Series(start, k1, g1, k2, g2) ==
    [i \in 1..(k1 + k2) |->
        IF i <= k1 THEN start + (i - 1) * g1
                   ELSE start + (k1 - 1) * g1 + (i - k1) * g2]

Gaps == {0, 1, 7, MaxGap}
Starts == {0, 27}

SeriesInputs ==
    {Series(st, k1, g1, k2, g2) :
        st \in Starts, g1 \in Gaps, g2 \in Gaps,
        k1 \in 1..MaxRows, k2 \in 0..MaxRows} \cup {<<>>}

FcInputs ==
    {a \in [s : SeriesInputs, agg : {"sum", "mean"},
            freq : {"auto", "D", "W", "M", "Q"}, horizon : {0, 3}] :
        Len(a.s) <= MaxRows}

FcIdle ==
    /\ fpc = "idle"
    /\ fargs = NoArgs
    /\ fIdx = 0
    /\ last_reason = NoReason
    /\ y = <<>>
    /\ attempts = <<>>
    /\ fres = NoResult

FcInit ==
    /\ fpc = "start"
    /\ fargs \in FcInputs
    /\ fIdx = 0
    /\ last_reason = NoReason
    /\ y = <<>>
    /\ attempts = <<>>
    /\ fres = NoResult

FcNext ==
    \/ FcStart
    \/ FcTry
    \/ FcFit
    \/ FcExhausted

----------------------------------------------------------------------------
(* Target selection: pick_target (main.py lines 252-298)                   *)
(*                                                                         *)
(* A numeric column is [name, uniq, notna, var]: its name, nunique(dropna),*)
(* notna().sum() and its variance (an integer rank; NaN is already 0).     *)

\* The absent column: the None of Optional[str].
NoCol == "<None>"

MaxCols == 3        \* numeric columns of a table
RowCount == 50      \* rows of a table

\* The column names of the tables, with their lower-cased form and the
\* keywords of prefs_sum and prefs_mean each lower-cased name contains.
ColNames == {"profit", "sales", "Sales", "avg_cost", "price", "id", "score"}

NameLower(name) == IF name = "Sales" THEN "sales" ELSE name

\* p in lc
Contains(p, lc) ==
    CASE lc = "profit"   -> p = "profit"
      [] lc = "sales"    -> p = "sales"
      [] lc = "avg_cost" -> p \in {"avg", "cost"}
      [] lc = "price"    -> p = "price"
      [] OTHER           -> FALSE

\* Lines 265-282
prefs_sum ==
    <<"sales", "revenue", "amount", "qty", "quantity", "units", "orders", "profit",
      "turnover", "count", "gmv", "visits", "views", "clicks", "volume", "sold">>

\* Line 283
prefs_mean == <<"price", "cost", "rate", "avg", "average", "margin">>

is_idlike_strict(rows, col) == rows > 0 /\ col.uniq * 100 > 98 * rows

\* Lines 259-261: the column's distinct ratio is at least 0.98.
is_idlike(rows, col) == rows > 0 /\ col.uniq * 100 >= 98 * rows

\* Line 263: the non-ID-like columns with at least 6 values, or every numeric
\* column when there is none.
Candidates(df) ==
    LET kept == SelectSeq(df.num, LAMBDA c : ~is_idlike(df.rows, c) /\ c.notna >= 6)
    IN  IF kept # <<>> THEN kept ELSE df.num

\* Line 285: the items of {c.lower(): c for c in candidates}.  A key keeps the
\* position of its first insertion and the value of its last.
LowerItems(cands) ==
    LET lc(i) == NameLower(cands[i].name)
        firsts == SelectSeq([i \in 1..Len(cands) |-> i],
                            LAMBDA i : \A j \in 1..(i - 1) : lc(j) # lc(i))
    IN  [k \in 1..Len(firsts) |->
            [lc |-> lc(firsts[k]),
             orig |-> cands[CHOOSE i \in 1..Len(cands) :
                               /\ lc(i) = lc(firsts[k])
                               /\ \A j \in (i + 1)..Len(cands) : lc(j) # lc(firsts[k])].name]]

\* The inner loop of lines 287-289: the first item whose key contains p.
RECURSIVE ScanItems(_, _, _)
ScanItems(p, items, j) ==
    IF j > Len(items) THEN NoCol
    ELSE IF Contains(p, items[j].lc) THEN items[j].orig
    ELSE ScanItems(p, items, j + 1)

\* The loops with the columns outside and the keywords inside.
RECURSIVE FirstMatchByColumn(_, _, _)
FirstMatchByColumn(prefs, items, j) ==
    IF j > Len(items) THEN NoCol
    ELSE IF \E i \in 1..Len(prefs) : Contains(prefs[i], items[j].lc) THEN items[j].orig
    ELSE FirstMatchByColumn(prefs, items, j + 1)

\* The loops of lines 286-289 and 290-293, from keyword i on: the keywords
\* outside, the items inside, returning at the first hit.
RECURSIVE FirstMatch(_, _, _)
FirstMatch(prefs, items, i) ==
    IF i > Len(prefs) THEN NoCol
    ELSE IF ScanItems(prefs[i], items, 1) # NoCol THEN ScanItems(prefs[i], items, 1)
    ELSE FirstMatch(prefs, items, i + 1)

\* Lines 295-297: the head of the variances sorted in descending order; the
\* order of equal variances is left to the sort.
MaxVariance(cands) ==
    {cands[i].name : i \in {i \in 1..Len(cands) :
                               \A j \in 1..Len(cands) : cands[j].var <= cands[i].var}}

\* pick_target: the results the call can return.
pick_target(df) ==
    IF df.num = <<>> THEN {[target |-> NoCol, agg |-> "sum"]}
    ELSE LET items == LowerItems(Candidates(df))
             bySum == FirstMatch(prefs_sum, items, 1)
             byMean == FirstMatch(prefs_mean, items, 1)
         IN  IF bySum # NoCol THEN {[target |-> bySum, agg |-> "sum"]}
             ELSE IF byMean # NoCol THEN {[target |-> byMean, agg |-> "mean"]}
             ELSE {[target |-> t, agg |-> "sum"] : t \in MaxVariance(Candidates(df))}

\* The smallest distinct count that makes a column of `rows` rows ID-like.
IdLikeFrom(rows) == (98 * rows + 99) \div 100

\* An ID-like column at the threshold, a column just below it, a column with
\* fewer than 6 values.
ColShapes(rows) ==
    {[uniq |-> IdLikeFrom(rows), notna |-> rows],
     [uniq |-> IdLikeFrom(rows) - 1, notna |-> rows],
     [uniq |-> 5, notna |-> 5]}

\* The variance ranks of a column: the variance decides only among columns
\* whose names contain no keyword.
VarRanks(nm) ==
    IF \E k \in 1..Len(prefs_sum) : Contains(prefs_sum[k], NameLower(nm)) THEN {1}
    ELSE IF \E k \in 1..Len(prefs_mean) : Contains(prefs_mean[k], NameLower(nm)) THEN {1}
    ELSE {1, 2}

Columns(rows) ==
    UNION {{[name |-> nm, uniq |-> sh.uniq, notna |-> sh.notna, var |-> v] :
               sh \in ColShapes(rows), v \in VarRanks(nm)} : nm \in ColNames}

\* The column lists of up to MaxCols columns with distinct names.
ColumnLists(rows) ==
    UNION {{cs \in [1..n -> Columns(rows)] :
               \A i, j \in 1..n : i # j => cs[i].name # cs[j].name} : n \in 0..MaxCols}

NoTable == [rows |-> 0, num |-> <<>>]
NoTarget == [target |-> NoCol, agg |-> "none"]

TgIdle ==
    /\ tpc = "idle"
    /\ tdf = NoTable
    /\ tres = NoTarget

TgInit ==
    /\ tpc = "call"
    /\ tdf \in {[rows |-> RowCount, num |-> cs] : cs \in ColumnLists(RowCount)}
    /\ tres = NoTarget

PickTarget ==
    /\ tpc = "call"
    /\ tres' \in pick_target(tdf)
    /\ tpc' = "done"
    /\ UNCHANGED tdf
    /\ UNCHANGED notTg

TgNext == PickTarget

----------------------------------------------------------------------------
(* The chart builder: chart_data (main.py lines 175-249)                   *)
(*                                                                         *)
(* The table is [num, corr, finite, pairs, cat, dt]: the names of the      *)
(* numeric columns in order, their correlation matrix after fillna(0.0) in *)
(* hundredths, whether every numeric value is finite, whether some row has *)
(* both columns of a pair non-null, the number of categorical columns and  *)
(* whether a datetime column with a non-null row exists.                   *)

Abs(v) == IF v < 0 THEN 0 - v ELSE v

\* np.fill_diagonal(m, 0)
ZeroDiagonal(m, n) ==
    [i \in 1..n |-> [j \in 1..n |-> IF i = j THEN 0 ELSE m[i][j]]]

\* The matrix with the diagonal zeroed and the signs kept.
SignedOffDiagonal(corr, n) == ZeroDiagonal(corr, n)

\* Lines 210-211: corr.abs() with the diagonal filled with 0.
AbsOffDiagonal(corr, n) ==
    ZeroDiagonal([i \in 1..n |-> [j \in 1..n |-> Abs(corr[i][j])]], n)

\* np.argmax over the flattened matrix: the first flat index, in row-major
\* order, that holds the maximum.  Flat indexes are 0-based.
ArgMax(A, n) ==
    LET at(k) == A[(k \div n) + 1][(k % n) + 1]
    IN  CHOOSE k \in 0..(n * n - 1) :
            /\ \A m \in 0..(n * n - 1) : at(m) <= at(k)
            /\ \A m \in 0..(k - 1) : at(m) < at(k)

\* Lines 210-213: the pair of 1-based column positions of the scatter.
ScatterPair(corr, n) ==
    LET k == ArgMax(AbsOffDiagonal(corr, n), n)
    IN  <<(k \div n) + 1, (k % n) + 1>>

NoCharts ==
    [histograms |-> <<>>, barCounts |-> <<>>, pie |-> None, heatmap |-> None,
     scatter |-> None, timeseries |-> None]

\* A Python slice seq[:k].
Take(seq, k) == SubSeq(seq, 1, IF Len(seq) < k THEN Len(seq) ELSE k)

\* Lines 184-190: np.histogram raises ValueError when the range of the values
\* is not finite.
ChHist ==
    /\ cpc = "hist"
    /\ IF cdf.num # <<>> /\ ~cdf.finite
       THEN cpc' = "raised" /\ UNCHANGED charts
       ELSE /\ charts' = [charts EXCEPT !.histograms = Take(cdf.num, 6)]
            /\ cpc' = "bars"
    /\ UNCHANGED cdf
    /\ UNCHANGED notCh

\* Lines 193-196
ChBars ==
    /\ cpc = "bars"
    /\ charts' = [charts EXCEPT !.barCounts = Take([k \in 1..cdf.cat |-> k], 6)]
    /\ cpc' = "pie"
    /\ UNCHANGED cdf
    /\ UNCHANGED notCh

\* Lines 199-202
ChPie ==
    /\ cpc = "pie"
    /\ charts' = [charts EXCEPT !.pie = IF cdf.cat > 0 THEN [column |-> 1] ELSE None]
    /\ cpc' = "heat"
    /\ UNCHANGED cdf
    /\ UNCHANGED notCh

\* Lines 205-216.  When the maximum is on the diagonal (every off-diagonal
\* correlation is 0), xcol = ycol, sample[[xcol, ycol]] has two columns of
\* that name, pts[xcol] is a DataFrame and .tolist() raises AttributeError.
ChHeat ==
    /\ cpc = "heat"
    /\ LET n == Len(cdf.num)
           ij == ScatterPair(cdf.corr, n)
       IN  IF n < 2
           THEN cpc' = "ts" /\ UNCHANGED charts
           ELSE IF ~cdf.pairs
           THEN /\ charts' = [charts EXCEPT !.heatmap = [columns |-> cdf.num, matrix |-> cdf.corr]]
                /\ cpc' = "ts"
           ELSE IF ij[1] = ij[2]
           THEN cpc' = "raised" /\ UNCHANGED charts
           ELSE /\ charts' = [charts EXCEPT
                                 !.heatmap = [columns |-> cdf.num, matrix |-> cdf.corr],
                                 !.scatter = [xCol |-> cdf.num[ij[1]], yCol |-> cdf.num[ij[2]]]]
                /\ cpc' = "ts"
    /\ UNCHANGED cdf
    /\ UNCHANGED notCh

\* Lines 219-241
ChTimeseries ==
    /\ cpc = "ts"
    /\ charts' = [charts EXCEPT !.timeseries =
                     IF cdf.dt /\ cdf.num # <<>>
                     THEN [dateCol |-> 1, series |-> Take(cdf.num, 2)]
                     ELSE None]
    /\ cpc' = "ret"
    /\ UNCHANGED cdf
    /\ UNCHANGED notCh

\* Lines 243-249
ChReturn ==
    /\ cpc = "ret"
    /\ cpc' = "done"
    /\ UNCHANGED <<cdf, charts>>
    /\ UNCHANGED notCh

CorrVals == {-95, 0, 30, 95}

\* The symmetric matrices with a unit diagonal.
CorrMatrices(n) ==
    LET upper == {p \in (1..n) \X (1..n) : p[1] < p[2]}
    IN  {[i \in 1..n |-> [j \in 1..n |->
            IF i = j THEN 100 ELSE IF i < j THEN u[<<i, j>>] ELSE u[<<j, i>>]]] :
         u \in [upper -> CorrVals]}

NumNames == <<"a", "b", "c", "d", "e", "f", "g">>

ChartTables ==
    UNION {[num : {Take(NumNames, n)}, corr : CorrMatrices(n), finite : BOOLEAN,
            pairs : BOOLEAN, cat : 0..2, dt : BOOLEAN] : n \in 0..MaxCols}

NoChartTable == [num |-> <<>>, corr |-> <<>>, finite |-> TRUE, pairs |-> FALSE,
                 cat |-> 0, dt |-> FALSE]

ChIdle ==
    /\ cpc = "idle"
    /\ cdf = NoChartTable
    /\ charts = NoCharts

ChInit ==
    /\ cpc = "hist"
    /\ cdf \in ChartTables
    /\ charts = NoCharts

ChNext ==
    \/ ChHist
    \/ ChBars
    \/ ChPie
    \/ ChHeat
    \/ ChTimeseries
    \/ ChReturn

----------------------------------------------------------------------------
(* The insight synthesizer: insights (main.py lines 550-590)               *)
(*                                                                         *)
(* The arguments are [rows, missing, heat, bars, skews, fc]: summary.rows, *)
(* the missing count of every column in column order, the heatmap matrix   *)
(* (<<>> if none), for every barCounts entry whether it has labels, for every   *)
(* numeric column its non-null count and skewness in hundredths, and       *)
(* whether a forecast with a forecast series was passed.  chart_data       *)
(* builds every barCounts entry from a non-empty sample, so every entry    *)
(* has labels.                                                             *)

MaxAllCols == 4     \* columns of a table
MaxBars == 3        \* entries of barCounts

Line(rule, about) == [rule |-> rule, about |-> about]

\* Line 555: sorted(miss.items(), key=count, reverse=True)[:3]; the sort is
\* stable, equal counts keep the column order.
TopMissing(missing) ==
    LET n == Len(missing)
        before(j, i) == missing[j] > missing[i] \/ (missing[j] = missing[i] /\ j < i)
        order == [k \in 1..n |->
                    CHOOSE i \in 1..n : Cardinality({j \in 1..n : before(j, i)}) = k - 1]
    IN  Take(order, 3)

\* Lines 553-559
MissingLines(missing) ==
    LET top == TopMissing(missing)
        hit == SelectSeq(top, LAMBDA i : missing[i] > 0)
    IN  [k \in 1..Len(hit) |-> Line("missing", hit[k])]

\* Lines 561-570: the cell of largest absolute value off the diagonal, when
\* it is at least 0.6.
CorrLines(heat) ==
    IF heat = <<>> THEN <<>>
    ELSE LET n == Len(heat)
             ij == ScatterPair(heat, n)
         IN  IF n > 0 /\ Abs(ZeroDiagonal(heat, n)[ij[1]][ij[2]]) >= 60
             THEN <<Line("corr", ij[1] * 10 + ij[2])>>
             ELSE <<>>

\* Lines 572-575
CategoryLines(bars) ==
    LET first == Take([k \in 1..Len(bars) |-> k], 2)
        hit == SelectSeq(first, LAMBDA k : bars[k])
    IN  [k \in 1..Len(hit) |-> Line("category", hit[k])]

\* Lines 577-582
SkewLines(skews) ==
    LET first == Take([k \in 1..Len(skews) |-> k], 2)
        hit == SelectSeq(first, LAMBDA k : skews[k].n > 10 /\ Abs(skews[k].skew) > 100)
    IN  [k \in 1..Len(hit) |-> Line("skew", hit[k])]

\* Lines 584-587
ForecastLines(fc) == IF fc THEN <<Line("forecast", 0)>> ELSE <<>>

FallbackLine == Line("fallback", 0)

\* The list with the fallback line appended whatever the rules produced.
WithFallbackAlways(out) == Append(out, FallbackLine)

\* Lines 588-589
WithFallback(out) == IF out = <<>> THEN <<FallbackLine>> ELSE out

\* insights
insights(in) ==
    WithFallback(MissingLines(in.missing) \o CorrLines(in.heat) \o CategoryLines(in.bars)
                 \o SkewLines(in.skews) \o ForecastLines(in.fc))

\* The sequences over S of length at most n.
SeqsUpTo(S, n) == UNION {[1..k -> S] : k \in 0..n}

SkewShapes == {[n |-> 11, skew |-> 150], [n |-> 11, skew |-> 100], [n |-> 10, skew |-> -150]}

InsightInputs ==
    [rows : {RowCount},
     missing : SeqsUpTo({0, 2}, MaxAllCols),
     heat : {<<>>} \cup CorrMatrices(2),
     bars : {[k \in 1..n |-> TRUE] : n \in 0..MaxBars},
     skews : SeqsUpTo(SkewShapes, MaxCols),
     fc : BOOLEAN]

NoInsightInput ==
    [rows |-> 0, missing |-> <<>>, heat |-> <<>>, bars |-> <<>>, skews |-> <<>>, fc |-> FALSE]

InIdle ==
    /\ ipc = "idle"
    /\ iin = NoInsightInput
    /\ iout = <<>>

InInit ==
    /\ ipc = "call"
    /\ iin \in InsightInputs
    /\ iout = <<>>

Insights ==
    /\ ipc = "call"
    /\ iout' = insights(iin)
    /\ ipc' = "done"
    /\ UNCHANGED iin
    /\ UNCHANGED notIn

InNext == Insights

----------------------------------------------------------------------------
(* The request handler: analyze (main.py lines 596-646)                    *)
(*                                                                         *)
(* The upload is [kind, dates, overlap, skew]: what read_dataframe makes   *)
(* of the file, the day numbers of the datetime column with the most       *)
(* distinct values (<<>> without a datetime column), whether some row has  *)
(* both the date and the target, and the skewness of the numeric columns.  *)
(* The numeric columns are tdf.num and the chart inputs are cdf.           *)

NoUpload == [kind |-> "none", dates |-> <<>>, overlap |-> FALSE, skew |-> 0]
NoDetected == [date_col |-> NoCol, target |-> NoCol, agg |-> "none"]

\* Lines 301-308: the datetime column needs at least 6 distinct timestamps.
pick_date_col(dates) ==
    IF Cardinality({dates[i] : i \in 1..Len(dates)}) >= 6 THEN "date" ELSE NoCol

\* The reason with the branch for a missing target left out.
DetectionReasonNoElse(date_col, target) ==
    IF date_col = NoCol /\ target = NoCol
    THEN Reason("no_date_and_no_numeric_target_detected", "", 0)
    ELSE IF date_col = NoCol THEN Reason("no_date_column_detected", "", 0)
    ELSE NoReason

\* Lines 617-622
DetectionReason(date_col, target) ==
    IF date_col = NoCol /\ target = NoCol
    THEN Reason("no_date_and_no_numeric_target_detected", "", 0)
    ELSE IF date_col = NoCol THEN Reason("no_date_column_detected", "", 0)
    ELSE Reason("no_numeric_target_detected", "", 0)

\* Lines 598-600: read_dataframe raises HTTPException(400) on an empty or
\* unparsable file, analyze on a table without rows.
AnRead ==
    /\ apc = "read"
    /\ IF adf.kind = "table"
       THEN apc' = "coerce" /\ UNCHANGED astatus
       ELSE apc' = "failed" /\ astatus' = 400
    /\ UNCHANGED <<adf, detected, record>>
    /\ UNCHANGED <<storeVars, fcVars, tgVars, chVars, inVars>>

\* Lines 603-607: coerce_dates, summarize_dataframe, columns_meta, then the
\* call of chart_data.
AnCoerce ==
    /\ apc = "coerce"
    /\ apc' = "charts"
    /\ cpc' = "hist"
    /\ UNCHANGED <<cdf, charts>>
    /\ UNCHANGED <<adf, detected, record, astatus>>
    /\ UNCHANGED <<storeVars, fcVars, tgVars, inVars>>

\* Line 607: chart_data raised; nothing in analyze catches it and the request
\* ends with a 500 answer.
AnChartsRaised ==
    /\ apc = "charts"
    /\ cpc = "raised"
    /\ apc' = "failed"
    /\ astatus' = 500
    /\ UNCHANGED <<adf, detected, record>>
    /\ UNCHANGED <<storeVars, fcVars, tgVars, chVars, inVars>>

\* Lines 607-622: chart_data returned; pick the date column and the target,
\* then call simple_forecast or set the reason.
AnDetect ==
    /\ apc = "charts"
    /\ cpc = "done"
    /\ \E t \in pick_target(tdf) :
          LET d == pick_date_col(adf.dates) IN
          /\ detected' = [date_col |-> d, target |-> t.target, agg |-> t.agg]
          /\ tres' = t
          /\ IF d # NoCol /\ t.target # NoCol
             THEN /\ apc' = "forecast"
                  /\ fpc' = "start"
                  /\ fargs' = [s |-> IF adf.overlap THEN adf.dates ELSE <<>>,
                               agg |-> t.agg, freq |-> "auto", horizon |-> 0]
                  /\ UNCHANGED fres
             ELSE /\ apc' = "insights"
                  /\ fres' = [forecast |-> None, reason |-> DetectionReason(d, t.target)]
                  /\ UNCHANGED <<fpc, fargs>>
    /\ UNCHANGED <<fIdx, last_reason, y, attempts>>
    /\ UNCHANGED <<tpc, tdf>>
    /\ UNCHANGED <<adf, record, astatus>>
    /\ UNCHANGED <<storeVars, chVars, inVars>>

\* Line 615: simple_forecast returned.
AnForecastDone ==
    /\ apc = "forecast"
    /\ fpc = "done"
    /\ apc' = "insights"
    /\ UNCHANGED <<adf, detected, record, astatus>>
    /\ UNCHANGED <<storeVars, fcVars, tgVars, chVars, inVars>>

\* Line 624: the arguments analyze passes to insights.
InsightArgs ==
    [rows |-> tdf.rows,
     missing |-> [k \in 1..Len(tdf.num) |-> tdf.rows - tdf.num[k].notna],
     heat |-> IF charts.heatmap = None THEN <<>> ELSE charts.heatmap.matrix,
     bars |-> [k \in 1..Len(charts.barCounts) |-> TRUE],
     skews |-> [k \in 1..Len(tdf.num) |-> [n |-> tdf.num[k].notna, skew |-> adf.skew]],
     fc |-> fres.forecast # None]

\* Line 624
AnInsights ==
    /\ apc = "insights"
    /\ iin' = InsightArgs
    /\ iout' = insights(InsightArgs)
    /\ apc' = "store"
    /\ UNCHANGED ipc
    /\ UNCHANGED <<adf, detected, record, astatus>>
    /\ UNCHANGED <<storeVars, fcVars, tgVars, chVars>>

\* Lines 626-646: build the payload, store it under a fresh id, return it.
AnStore ==
    /\ apc = "store"
    /\ \E id \in Ids \ StoreKeys :
          /\ StorePut(id)
          /\ record' = [analysis_id |-> id,
                        charts |-> charts,
                        forecast |-> fres.forecast,
                        forecast_reason |-> fres.reason,
                        insights |-> iout,
                        detected |-> [dateCol |-> detected.date_col,
                                      target |-> detected.target,
                                      agg |-> detected.agg,
                                      freq |-> IF fres.forecast # None
                                               THEN fres.forecast.freq ELSE "<None>"]]
    /\ apc' = "done"
    /\ astatus' = 200
    /\ UNCHANGED <<now, ticks, hpc, hNow, hPos, hUsed, stale, lookup>>
    /\ UNCHANGED <<adf, detected>>
    /\ UNCHANGED <<fcVars, tgVars, chVars, inVars>>

\* The numeric columns of the uploads: none, one sales column, an ID-like
\* column before a price column, two columns without a keyword.
UploadNum ==
    {<<>>,
     <<[name |-> "sales", uniq |-> IdLikeFrom(RowCount) - 1, notna |-> RowCount, var |-> 1]>>,
     <<[name |-> "id", uniq |-> RowCount, notna |-> RowCount, var |-> 2],
       [name |-> "price", uniq |-> 5, notna |-> RowCount - 1, var |-> 1]>>,
     <<[name |-> "score", uniq |-> 5, notna |-> RowCount, var |-> 1],
       [name |-> "id", uniq |-> 5, notna |-> RowCount, var |-> 2]>>}

\* The date columns of the uploads.
UploadDates ==
    {<<>>} \cup {Series(0, k, g, 0, 0) : k \in {5, 6, 12}, g \in {1, MaxGap}}

AnIdle ==
    /\ apc = "idle"
    /\ adf = NoUpload
    /\ detected = NoDetected
    /\ record = None
    /\ astatus = 0

\* A request with a file that yields no table, or with a table.
AnInit ==
    /\ apc = "read"
    /\ detected = NoDetected
    /\ record = None
    /\ astatus = 0
    /\ tpc = "idle"
    /\ tres = NoTarget
    /\ cpc = "idle"
    /\ charts = NoCharts
    /\ \/ /\ adf \in {[kind |-> k, dates |-> <<>>, overlap |-> FALSE, skew |-> 0] :
                         k \in {"empty_file", "unparsable", "no_rows"}}
          /\ tdf = NoTable
          /\ cdf = NoChartTable
       \/ /\ adf \in [kind : {"table"}, dates : UploadDates, overlap : BOOLEAN,
                      skew : {100, 150}]
          /\ tdf \in {[rows |-> RowCount, num |-> cs] : cs \in UploadNum}
          /\ cdf \in {c \in [num : {[k \in 1..Len(tdf.num) |-> tdf.num[k].name]},
                            corr : CorrMatrices(Len(tdf.num)), finite : BOOLEAN,
                            pairs : BOOLEAN, cat : 0..1, dt : {adf.dates # <<>>}] : TRUE}

AnNext ==
    \/ AnRead
    \/ AnCoerce
    \/ ChNext
    \/ AnChartsRaised
    \/ AnDetect
    \/ FcNext
    \/ AnForecastDone
    \/ AnInsights
    \/ AnStore

----------------------------------------------------------------------------
(* Specifications                                                          *)

InitStore == StoreInit /\ FcIdle /\ TgIdle /\ ChIdle /\ InIdle /\ AnIdle
SpecStore == InitStore /\ [][StoreNext]_vars

InitForecast == StoreInit /\ FcInit /\ TgIdle /\ ChIdle /\ InIdle /\ AnIdle
SpecForecast == InitForecast /\ [][FcNext]_vars

InitTarget == StoreInit /\ FcIdle /\ TgInit /\ ChIdle /\ InIdle /\ AnIdle
SpecTarget == InitTarget /\ [][TgNext]_vars

InitCharts == StoreInit /\ FcIdle /\ TgIdle /\ ChInit /\ InIdle /\ AnIdle
SpecCharts == InitCharts /\ [][ChNext]_vars

InitInsights == StoreInit /\ FcIdle /\ TgIdle /\ ChIdle /\ InInit /\ AnIdle
SpecInsights == InitInsights /\ [][InNext]_vars

InitAnalyze == StoreInit /\ FcIdle /\ InIdle /\ AnInit
SpecAnalyze == InitAnalyze /\ [][AnNext]_vars

----------------------------------------------------------------------------
\* C2: a lookup by id never returns a record older than the time-to-live.
C2_LookupNeverExpired ==
    lookup.status = "ok" => lookup.age <= TTL_SECONDS

\* C3: while a sweep is part-way through iterating the store, the store is
\* neither inserted into nor popped from, and a record leaves the store only
\* when the sweep pops it as stale.
C3_SweepSerialized ==
    [][/\ (hpc = "iter" => ANALYSES' = ANALYSES)
       /\ \A k \in StoreKeys :
             (k \notin {ANALYSES'[i].id : i \in 1..Len(ANALYSES')})
                => (hpc = "pop" /\ stale # <<>> /\ Head(stale) = k)]_vars

\* C1: in auto mode the frequencies are tried in the order Day, Week, Month;
\* a frequency is tried only after every finer one was found insufficient,
\* the forecast has the first frequency whose bucket count meets its minimum
\* (10, 6, 4), nothing is tried after a success, and when no count meets its
\* minimum the call returns no forecast with the last insufficiency reason.
\* An explicit frequency is the only one tried.
C1_FrequencyOrder ==
    LET order == IF fargs.freq = "auto" THEN <<"D", "W", "M">> ELSE <<fargs.freq>>
        need == [D |-> 10, W |-> 6, M |-> 4]
        cnt(i) == Len(Resample(fargs.s, order[i], fargs.agg))
        ok(i) == cnt(i) >= need[order[i]]
        tried == Len(attempts)
        short(i) == Reason("insufficient_points", Lower(order[i]), cnt(i))
    IN  (fargs.freq \in {"auto", "D", "W", "M"} /\ fargs.s # <<>>) =>
            /\ tried <= Len(order)
            /\ \A i \in 1..tried : attempts[i].f = order[i] /\ attempts[i].n = cnt(i)
            /\ \A i \in 1..(tried - 1) : ~ok(i)
            /\ (fpc = "loop" /\ tried > 0) => (~ok(tried) /\ last_reason = short(tried))
            /\ fpc = "fit" => ok(tried)
            /\ fpc = "done" =>
                 IF \E i \in 1..Len(order) : ok(i)
                 THEN /\ ok(tried)
                      /\ fres.forecast # None => fres.forecast.freq = order[tried]
                      /\ fres.forecast = None => fres.reason.code = "forecast_error"
                 ELSE /\ tried = Len(order)
                      /\ fres.forecast = None
                      /\ fres.reason = short(Len(order))

\* C1 witness: an auto-mode call that found Day and Week insufficient and
\* returned a Month forecast.
C1_Witness ==
    /\ fpc = "done"
    /\ fargs.freq = "auto"
    /\ Len(attempts) = 3
    /\ fres.forecast # None
    /\ fres.forecast.freq = "M"

\* C7: on a successful forecast over n buckets the backtest series x, y_true
\* and y_hat each have exactly n - max(5, floor(0.8 n)) entries, they are the
\* buckets from index max(5, floor(0.8 n)) to the end in ascending order, and
\* the three metrics are computed over exactly that segment.
C7_BacktestSegment ==
    (fpc = "done" /\ fres.forecast # None) =>
        LET n == Len(y)
            k == IF 5 >= (8 * n) \div 10 THEN 5 ELSE (8 * n) \div 10
            bt == fres.forecast.backtest
            m == fres.forecast.metrics
        IN  /\ Len(bt.x) = n - k
            /\ Len(bt.y_true) = n - k
            /\ Len(bt.y_hat) = n - k
            /\ \A i \in 1..(n - k) :
                  /\ bt.x[i] = y[k + i]
                  /\ bt.y_true[i] = Y(y[k + i])
                  /\ bt.y_hat[i] = Yhat(k + i - 1)
            /\ \A i \in 1..(Len(bt.x) - 1) : bt.x[i] < bt.x[i + 1]
            /\ \A q \in {m.mae, m.rmse, m.mape} :
                  q.y_true = bt.y_true /\ q.y_hat = bt.y_hat

\* The numeric column of the table that pick_target returned.
TargetCol == tdf.num[CHOOSE i \in 1..Len(tdf.num) : tdf.num[i].name = tres.target]

\* Distinct non-null values / row count >= 0.98.
RatioAtLeast98(col) == tdf.rows > 0 /\ col.uniq * 100 >= 98 * tdf.rows

\* C5: pick_target never returns a numeric column whose distinct-value ratio
\* is >= 0.98 unless that column is the only numeric column of the table.
C5_IdLikeOnlyIfSole ==
    (tpc = "done" /\ tres.target # NoCol /\ RatioAtLeast98(TargetCol)) =>
        Len(tdf.num) = 1

\* C5 as amended: pick_target never returns a numeric column whose
\* distinct-value ratio is >= 0.98 unless no numeric column of the table has
\* both a ratio below 0.98 and at least 6 non-null values.
C5_IdLikeOnlyOnFallback ==
    (tpc = "done" /\ tres.target # NoCol /\ RatioAtLeast98(TargetCol)) =>
        \A i \in 1..Len(tdf.num) :
            RatioAtLeast98(tdf.num[i]) \/ tdf.num[i].notna < 6

\* C5 witness: a table with an ID-like numeric column ahead of a usable one,
\* for which pick_target returned the usable one.
C5_Witness ==
    /\ tpc = "done"
    /\ Len(tdf.num) >= 2
    /\ RatioAtLeast98(tdf.num[1])
    /\ tres.target # NoCol
    /\ ~RatioAtLeast98(TargetCol)

\* The positions of the candidates whose lower-cased name contains a term of
\* the keyword list.
Matching(prefs) ==
    {i \in 1..Len(Candidates(tdf)) :
        \E k \in 1..Len(prefs) : Contains(prefs[k], NameLower(Candidates(tdf)[i].name))}

Least(S) == CHOOSE x \in S : \A z \in S : x <= z

\* C6: when a candidate matches the sum keyword list, pick_target returns the
\* first such candidate in column order with aggregation sum, whichever
\* keyword it matches; otherwise the first candidate matching the mean list
\* with aggregation mean; otherwise the candidate of maximum variance, sum.
C6_FirstMatchingColumn ==
    (tpc = "done" /\ tdf.num # <<>>) =>
        LET cands == Candidates(tdf) IN
        IF Matching(prefs_sum) # {}
        THEN tres = [target |-> cands[Least(Matching(prefs_sum))].name, agg |-> "sum"]
        ELSE IF Matching(prefs_mean) # {}
        THEN tres = [target |-> cands[Least(Matching(prefs_mean))].name, agg |-> "mean"]
        ELSE /\ tres.agg = "sum"
             /\ \E i \in 1..Len(cands) :
                   /\ cands[i].name = tres.target
                   /\ \A j \in 1..Len(cands) : cands[j].var <= cands[i].var

\* The candidate a keyword list selects: for the first keyword of the list
\* that some candidate's lower-cased name contains, the first candidate in
\* column order containing it, replaced by the last candidate with the same
\* lower-cased name.
KeywordChoice(prefs) ==
    LET cands == Candidates(tdf)
        has(k, i) == Contains(prefs[k], NameLower(cands[i].name))
        k0 == Least({k \in 1..Len(prefs) : \E i \in 1..Len(cands) : has(k, i)})
        i0 == Least({i \in 1..Len(cands) : has(k0, i)})
        same == {i \in 1..Len(cands) : NameLower(cands[i].name) = NameLower(cands[i0].name)}
    IN  cands[CHOOSE i \in same : \A z \in same : z <= i].name

\* C6 as amended: the keywords are taken in list order.  When a candidate
\* matches the sum list, pick_target returns, for the first sum keyword that
\* any candidate's lower-cased name contains, the first candidate in column
\* order containing that keyword (of candidates whose names differ only in
\* case, the last), with aggregation sum; otherwise the same over the mean
\* list with aggregation mean; otherwise a candidate of maximum variance, sum.
C6_FirstMatchingKeyword ==
    (tpc = "done" /\ tdf.num # <<>>) =>
        LET cands == Candidates(tdf) IN
        IF Matching(prefs_sum) # {}
        THEN tres = [target |-> KeywordChoice(prefs_sum), agg |-> "sum"]
        ELSE IF Matching(prefs_mean) # {}
        THEN tres = [target |-> KeywordChoice(prefs_mean), agg |-> "mean"]
        ELSE /\ tres.agg = "sum"
             /\ \E i \in 1..Len(cands) :
                   /\ cands[i].name = tres.target
                   /\ \A j \in 1..Len(cands) : cands[j].var <= cands[i].var

\* C6 witness: two candidates match different sum keywords and the one
\* returned is the later column, whose keyword comes first in the list.
C6_Witness ==
    /\ tpc = "done"
    /\ Cardinality(Matching(prefs_sum)) >= 2
    /\ tres.agg = "sum"
    /\ tres.target = "sales"
    /\ Candidates(tdf)[Least(Matching(prefs_sum))].name = "profit"

\* C8: whenever chart_data emits a scatter, xCol and yCol are two distinct
\* numeric columns whose absolute correlation is the maximum over all
\* off-diagonal cells of the correlation matrix, and the pair is the first
\* such cell in row-major order.
C8_ScatterIsTopPair ==
    charts.scatter # None =>
        LET n == Len(cdf.num)
            r(i, j) == IF cdf.corr[i][j] < 0 THEN 0 - cdf.corr[i][j] ELSE cdf.corr[i][j]
        IN  \E i, j \in 1..n :
               /\ i # j
               /\ charts.scatter = [xCol |-> cdf.num[i], yCol |-> cdf.num[j]]
               /\ cdf.num[i] # cdf.num[j]
               /\ \A a, b \in 1..n : a # b => r(a, b) <= r(i, j)
               /\ \A a, b \in 1..n :
                     (a # b /\ r(a, b) = r(i, j)) => (a > i \/ (a = i /\ b >= j))

\* C8 witness: a scatter over three numeric columns whose strongest pair is
\* negative, the first pair (a, b) being weaker.
C8_Witness ==
    /\ cpc = "done"
    /\ charts.scatter # None
    /\ Len(cdf.num) = 3
    /\ cdf.corr[1][2] = 30
    /\ cdf.corr[1][3] = -95
    /\ charts.scatter = [xCol |-> "a", yCol |-> "c"]

\* The rank of a line's rule in the order missingness, correlation, dominant
\* category, skew, forecast.
RuleRank(l) ==
    CASE l.rule = "missing"  -> 1
      [] l.rule = "corr"     -> 2
      [] l.rule = "category" -> 3
      [] l.rule = "skew"     -> 4
      [] l.rule = "forecast" -> 5
      [] OTHER               -> 6

CountOf(rule) == Cardinality({k \in 1..Len(iout) : iout[k].rule = rule})

\* C10: the list insights returns is never empty; its lines are in the order
\* missingness, correlation, dominant category, skew, forecast with at most
\* 3, 1, 2, 2 and 1 lines of each (at most 9); the fallback line is present
\* exactly when no rule produced a line, and is then the only element.
C10_InsightsShape ==
    ipc = "done" =>
        /\ iout # <<>>
        /\ Len(iout) <= 9
        /\ \A k \in 1..(Len(iout) - 1) : RuleRank(iout[k]) <= RuleRank(iout[k + 1])
        /\ CountOf("missing") <= 3
        /\ CountOf("corr") <= 1
        /\ CountOf("category") <= 2
        /\ CountOf("skew") <= 2
        /\ CountOf("forecast") <= 1
        /\ CountOf("fallback") > 0 <=> \A k \in 1..Len(iout) : RuleRank(iout[k]) = 6
        /\ CountOf("fallback") > 0 => iout = <<[rule |-> "fallback", about |-> 0]>>

\* C10 witness: a call in which every rule produced as many lines as its cap
\* allows, with more columns of each kind than the cap.
C10_Witness ==
    /\ ipc = "done"
    /\ Len(iout) = 9
    /\ Cardinality({k \in 1..Len(iin.missing) : iin.missing[k] > 0}) > 3
    /\ Len(iin.bars) > 2
    /\ Len(iin.skews) > 2

\* C4: for every non-empty parsed table analyze produces and stores a record:
\* a failure while building a chart leaves that chart absent and never aborts
\* the request.
C4_ChartFailureNeverAborts ==
    /\ (adf.kind = "table" /\ cpc = "raised") => apc # "failed"
    /\ (adf.kind = "table" /\ astatus # 0) =>
          /\ astatus = 200
          /\ record # None
          /\ record.analysis_id \in StoreKeys

\* C9: in every record analyze produces the forecast is absent exactly when
\* forecast_reason is a non-empty reason code; without a date column or a
\* target the forecaster is not invoked and the reason names what is
\* missing; a failure inside simple_forecast comes back as (None, reason).
C9_ForecastOrReason ==
    /\ fpc = "done" => (fres.forecast = None <=> fres.reason.code # "")
    /\ apc = "done" =>
          /\ record.forecast = None <=> record.forecast_reason.code # ""
          /\ (detected.date_col = NoCol /\ detected.target = NoCol) =>
                (fpc = "idle" /\ record.forecast_reason.code = "no_date_and_no_numeric_target_detected")
          /\ (detected.date_col = NoCol /\ detected.target # NoCol) =>
                (fpc = "idle" /\ record.forecast_reason.code = "no_date_column_detected")
          /\ (detected.date_col # NoCol /\ detected.target = NoCol) =>
                (fpc = "idle" /\ record.forecast_reason.code = "no_numeric_target_detected")
          /\ (detected.date_col # NoCol /\ detected.target # NoCol) =>
                (fpc = "done" /\ record.forecast = fres.forecast
                              /\ record.forecast_reason = fres.reason)

\* C9 witness: a stored record of a table with a date column and a target
\* whose fit raised inside simple_forecast: no forecast, reason forecast_error.
C9_Witness ==
    /\ apc = "done"
    /\ detected.date_col # NoCol
    /\ detected.target # NoCol
    /\ record.forecast = None
    /\ record.forecast_reason.code = "forecast_error"
    /\ record.analysis_id \in StoreKeys

\* C11: in auto mode, when the series resamples to exactly 8 daily buckets
\* the Day attempt is found insufficient, the reason insufficient_points_d=8
\* is recorded, and the next frequency the loop attempts is Week; the call
\* does not return before Week was attempted.
C11_DayShortThenWeek ==
    (fargs.freq = "auto" /\ fargs.s # <<>>
        /\ Len(Resample(fargs.s, "D", fargs.agg)) = 8) =>
        /\ Len(attempts) >= 1 => attempts[1] = [f |-> "D", n |-> 8]
        /\ Len(attempts) = 1 =>
              /\ fpc = "loop"
              /\ last_reason = Reason("insufficient_points", "d", 8)
              /\ fIdx = 2
              /\ Freqs(fargs.freq)[fIdx] = "W"
        /\ Len(attempts) >= 2 => attempts[2].f = "W"
        /\ fpc \in {"fit", "done"} => Len(attempts) >= 2

\* C11 witness: an auto-mode call whose Day attempt counted 8 buckets and
\* recorded the reason, and whose second attempt was Week.
C11_Witness ==
    /\ fargs.freq = "auto"
    /\ Len(attempts) = 2
    /\ attempts[1] = [f |-> "D", n |-> 8]
    /\ attempts[2].f = "W"
    /\ Len(fargs.s) = 8
    /\ fargs.s[8] - fargs.s[1] > 7

\* C12: for each candidate frequency and for both aggregation modes, the
\* bucket count compared against the minimum-points gate, and the series
\* that is fitted, are the buckets holding at least one valid row: empty
\* buckets between the first and the last timestamp are not counted.
C12_EmptyBucketsDropped ==
    /\ \A i \in 1..Len(attempts) :
          attempts[i].f \in {"D", "W", "M"} =>
              attempts[i].n = Cardinality(NonEmptyBuckets(fargs.s, attempts[i].f))
    /\ fpc = "fit" =>
          /\ Len(y) = Cardinality(NonEmptyBuckets(fargs.s, attempts[Len(attempts)].f))
          /\ \A t \in 1..Len(y) :
                y[t] \in NonEmptyBuckets(fargs.s, attempts[Len(attempts)].f)

\* C13: every successful forecast has at least one held-out bucket: the
\* bucket count n of the fitted series passed the gate of its frequency, the
\* split index max(5, floor(0.8 n)) is strictly less than n, the backtest is
\* not empty and none of mae, rmse, mape is the mean of an empty segment.
C13_HeldOutNonEmpty ==
    (fpc = "done" /\ fres.forecast # None) =>
        LET n == Len(y)
            k == IF 5 >= (8 * n) \div 10 THEN 5 ELSE (8 * n) \div 10
            m == fres.forecast.metrics
        IN  /\ k < n
            /\ Len(fres.forecast.backtest.x) >= 1
            /\ \A q \in {m.mae, m.rmse, m.mape} : ~q.nan

====
